---- MODULE Spec2Model ----
(***************************************************************************)
(* espnet_onnx Tacotron2 (src/espnet_onnx/tts/model/tts_models/tacotron2.py) *)
(* The synthesis call Tacotron2.__call__ as a state machine.  One Tacotron2 *)
(* object serves up to three calls; a call is at rest only while one of the   *)
(* ONNX sessions (encoder, predecoder, decoder, postdecoder) runs, so every *)
(* action is the code between the return of one session and the invocation  *)
(* of the next.                                                             *)
(*                                                                          *)
(* Arrays are modelled by what the code reads of them: their shape and a    *)
(* tag naming the computation that produced them.  Stop probabilities and   *)
(* the threshold are in tenths, the length ratios in halves.                *)
(***************************************************************************)
EXTENDS Integers, Sequences, FiniteSets, TLC

\* ------------------------------------------------------------------ bounds
\* longest text of the general inputs
MaxTextLen == 3
\* decoder steps for which the stop probability of the decoder model varies
Horizon == 3
\* text length of the documented scenarios (L = 10)
ScenarioLen == 10
\* cap on the decoder invocations of one call (the code has none)
MaxIter == 120

Calls == {1, 2, 3}

VARIABLES
    config,             \* self.config.decoder (+ postdecoder.onnx_export)
    input_names,        \* self.input_names: the encoder's declared inputs
    decoder,            \* the decoder ONNX model: layers, outputs, stop schedule
    pre_compute_enc_h,  \* self.pre_compute_enc_h
    enc_h,              \* self.enc_h
    mask,               \* self.mask
    args,               \* per call: text, feats, sids, spembs, lids
    pc,                 \* per call: the session the call is inside, or its end
    h, idx, outs, probs, att_ws, maxlen, minlen,
    c_list, z_list, a_prev, prev_out,
    input_dec,          \* per call: the feed of the decoder run in flight
    ret,                \* per call: the returned dict
    err,                \* per call: the exception that left __call__
    nsteps,             \* per call: decoder.run invocations so far
    invoked             \* per call: the sessions entered, in order

vars == <<config, input_names, decoder, pre_compute_enc_h, enc_h, mask, args,
          pc, h, idx, outs, probs, att_ws, maxlen, minlen, c_list, z_list,
          a_prev, prev_out, input_dec, ret, err, nsteps, invoked>>

selfvars == <<pre_compute_enc_h, enc_h, mask>>
objvars == <<config, input_names, decoder, args>>

\* ----------------------------------------------------------------- helpers
Max(a, b) == IF a >= b THEN a ELSE b

RECURSIVE MaxOf(_)
MaxOf(s) == IF s = <<>> THEN 0 ELSE Max(Head(s), MaxOf(Tail(s)))

\* variant: the last array is left out
ConcatenateButLast(list) ==
    LET RECURSIVE cat(_)
        cat(l) == IF l = <<>> THEN <<>> ELSE Head(l) \o cat(Tail(l))
    IN  IF list = <<>> THEN <<>> ELSE cat(SubSeq(list, 1, Len(list) - 1))

RECURSIVE Concatenate(_)
\* np.concatenate of a list of arrays along the axis the list extends
Concatenate(list) ==
    IF list = <<>> THEN <<>> ELSE Head(list) \o Concatenate(Tail(list))

\* int(len(text) * ratio), the ratio in halves (both are >= 0 here)
IntOfProduct(n, ratio) == (n * ratio) \div 2

\* int(sum(prob >= threshold))
CountAtLeast(prob, threshold) ==
    Cardinality({i \in DOMAIN prob : prob[i] >= threshold})

\* ------------------------------------------------------- external sessions
\* a value that was never assigned
Unset == [stage |-> "unset", L |-> 0, batch |-> 0, src |-> <<>>]
NoArray == [given |-> FALSE, val |-> <<>>]
Array(v) == [given |-> TRUE, val |-> v]

\* self.encoder.run(['h'], input_enc)[0]: one vector per input token
EncoderRun(input_enc) ==
    [stage |-> "enc", L |-> Len(input_enc["text"]), batch |-> 0, src |-> input_enc]

\* x[None, :]
AddBatch(x) == [x EXCEPT !.batch = 1]

\* self.predecoder.run(['pre_compute_enc_h'], {'enc_h': x})[0]
PredecoderRun(x) == [x EXCEPT !.stage = "pceh"]

\* the stop probability vector the decoder model emits at its t-th step
ProbAt(dec, t) == IF t \in DOMAIN dec.prob THEN dec.prob[t] ELSE dec.tail

\* onnxruntime accepts a feed only if its names are the model's declared inputs
FeedAccepted(dec, feed) ==
    /\ Len(feed.c_prev) = dec.layers
    /\ Len(feed.z_prev) = dec.layers

\* self.decoder.run(self.decoder_output_names, input_dec): the outputs in the
\* order out, prob, a_prev, prev_out, then dec.nstates recurrent states (for a
\* model that keeps its layout: the cells of every layer, then the hiddens)
DecoderRun(dec, cfg, feed) ==
    LET t == feed.prev_in.tick + 1
        n == dec.layers
        L == feed.enc_h.L
        cell(i) == [zero |-> FALSE, kind |-> "c", layer |-> i,
                    tick |-> feed.c_prev[i].tick + 1, shape |-> feed.c_prev[i].shape]
        hidden(i) == [zero |-> FALSE, kind |-> "z", layer |-> i,
                      tick |-> feed.z_prev[i].tick + 1, shape |-> feed.z_prev[i].shape]
        extra(j) == [zero |-> FALSE, kind |-> "x", layer |-> j, tick |-> t,
                     shape |-> <<1, cfg.dunits>>]
    IN  [out |-> [j \in 1..cfg.reduction_factor |->
                    [tick |-> t, pos |-> j, enc |-> feed.enc_h.src,
                     pceh |-> feed.pceh.src, mask |-> feed.mask, post |-> FALSE]],
         prob |-> ProbAt(dec, t),
         a_prev |-> <<[w |-> [i \in 1..L |-> <<IF i = ((t - 1) % L) + 1 THEN 1 ELSE 0, 1>>],
                       tick |-> t]>>,
         prev_out |-> [zero |-> FALSE, tick |-> t, shape |-> <<1, cfg.odim>>],
         cz_states |-> [j \in 1..dec.nstates |->
                          IF j <= n THEN cell(j)
                          ELSE IF j <= 2 * n THEN hidden(j - n)
                          ELSE extra(j)]]

\* the same outputs as the list decoder.run returns
DecoderOutputs(dec, cfg, feed) ==
    LET o == DecoderRun(dec, cfg, feed)
    IN  <<o.out, o.prob, o.a_prev, o.prev_out>> \o o.cz_states

\* variant: out, prob, a_prev, *cz_states
Unpack_ThreeLeading(t) ==
    [out |-> t[1], prob |-> t[2], a_prev |-> t[3], prev_out |-> t[4],
     cz_states |-> SubSeq(t, 4, Len(t))]

\* line 85: out, prob, a_prev, prev_out, *cz_states = ...
Unpack(t) ==
    [out |-> t[1], prob |-> t[2], a_prev |-> t[3], prev_out |-> t[4],
     cz_states |-> SubSeq(t, 5, Len(t))]

\* self.postdecoder.run(['out'], {'x': outs})[0]: keeps the time length
PostdecoderRun(x) == [i \in DOMAIN x |-> [x[i] EXCEPT !.post = TRUE]]

\* espnet_onnx.utils.function.make_pad_mask(lengths): 1 at the padded positions
make_pad_mask(lengths) ==
    [b \in 1..Len(lengths) |->
        [i \in 1..MaxOf(lengths) |-> IF i > lengths[b] THEN 1 ELSE 0]]

\* ------------------------------------------------------- Tacotron2 methods
\* variant: a declared input that was not supplied is left out of the feed
set_input_dict_NoAssert(names, r, key, value) ==
    IF key \in names /\ value.given
    THEN [r EXCEPT !.dic = (key :> value.val) @@ r.dic]
    ELSE r

\* lines 140-144: _set_input_dict, with self.input_names the encoder's inputs
set_input_dict(names, r, key, value) ==
    IF key \in names
    THEN IF ~r.ok THEN r
         ELSE IF ~value.given THEN [r EXCEPT !.ok = FALSE]
         ELSE [r EXCEPT !.dic = (key :> value.val) @@ r.dic]
    ELSE r

get_input_enc(names, a) ==
    LET r0 == [ok |-> TRUE, dic |-> ("text" :> a.text.val)]
        r1 == set_input_dict(names, r0, "feats", a.feats)
        r2 == set_input_dict(names, r1, "sids", a.sids)
        r3 == set_input_dict(names, r2, "spembs", a.spembs)
    IN  set_input_dict(names, r3, "lids", a.lids)

zero_state(cfg, hs_pad) ==
    [zero |-> TRUE, kind |-> "0", layer |-> 0, tick |-> 0,
     shape |-> <<hs_pad.batch, cfg.dunits>>]

\* get_att_prev(x) with att_type = None: (1.0 - pad mask) / length, as fractions
get_att_prev(x) ==
    LET pad == make_pad_mask(<<x.L>>)
    IN  [b \in DOMAIN pad |->
            [w |-> [i \in DOMAIN pad[b] |-> <<1 - pad[b][i], x.L>>], tick |-> 0]]

\* variant: one entry per _ in range(dlayers + 1)
InitList_ExtraLayer(cfg, x) ==
    [i \in 1..(cfg.dlayers + 1) |-> zero_state(cfg, AddBatch(x))]

\* the lists init_state builds: one entry, then one more per _ in range(1, dlayers)
InitList(cfg, x) ==
    [i \in 1..(1 + Max(cfg.dlayers - 1, 0)) |-> zero_state(cfg, AddBatch(x))]

\* np.where(make_pad_mask([L]) == 1, -10000.0, 0)
MaskBias(x) ==
    LET pad == make_pad_mask(<<x.L>>)
    IN  [b \in DOMAIN pad |->
            [i \in DOMAIN pad[b] |-> IF pad[b][i] = 1 THEN -10000 ELSE 0]]

\* variant: the projection, once stored on the object, is kept by later calls
init_state_Cached(cfg, x) ==
    [c_list |-> InitList(cfg, x),
     z_list |-> InitList(cfg, x),
     a |-> get_att_prev(x),
     prev_out |-> [zero |-> TRUE, tick |-> 0, shape |-> <<1, cfg.odim>>],
     pre_compute_enc_h |-> IF pre_compute_enc_h = Unset
                           THEN PredecoderRun(AddBatch(x))
                           ELSE pre_compute_enc_h,
     enc_h |-> AddBatch(x),
     mask |-> MaskBias(x)]

\* what init_state(x) returns and what it assigns to the object
init_state(cfg, x) ==
    [c_list |-> InitList(cfg, x),
     z_list |-> InitList(cfg, x),
     a |-> get_att_prev(x),
     prev_out |-> [zero |-> TRUE, tick |-> 0, shape |-> <<1, cfg.odim>>],
     pre_compute_enc_h |-> PredecoderRun(AddBatch(x)),
     enc_h |-> AddBatch(x),
     mask |-> MaskBias(x)]

get_input_dec(cl, zl, a, prev_in, pceh, ench, msk) ==
    [c_prev |-> cl, z_prev |-> zl, a_prev |-> a,
     pceh |-> pceh, enc_h |-> ench, mask |-> msk, prev_in |-> prev_in]

\* variant: the cut one place late
SplitPoint_OffByOne(len_list) == IF len_list = 0 THEN 0 ELSE len_list \div 2 + 1

SplitPoint(len_list) == len_list \div 2

split(status_lists) ==
    LET len_list == Len(status_lists)
    IN  [c_list |-> SubSeq(status_lists, 1, SplitPoint(len_list)),
         z_list |-> SubSeq(status_lists, SplitPoint(len_list) + 1, len_list)]

\* variants of the stopping rule
CandidateStop_StrictCeiling(cfg, prob, i, mx) ==
    CountAtLeast(prob, cfg.threshold) > 0 \/ i > mx

CandidateStop_NoCeiling(cfg, prob, i, mx) ==
    CountAtLeast(prob, cfg.threshold) > 0

CandidateStop_StrictThreshold(cfg, prob, i, mx) ==
    Cardinality({k \in DOMAIN prob : prob[k] > cfg.threshold}) > 0 \/ i >= mx

BelowMin_OffByOne(i, mn) == i + 1 < mn

BelowMin_Never(i, mn) == FALSE

\* variant: the post-processing pass is made whether or not a session is loaded
HasPostdecoder_Always(cfg) == TRUE

\* line 102: self.postdecoder is not None (line 33: postdecoder.onnx_export)
HasPostdecoder(cfg) == cfg.postdecoder

\* line 94-97: the probability trigger or the length ceiling
CandidateStop(cfg, prob, i, mx) ==
    CountAtLeast(prob, cfg.threshold) > 0 \/ i >= mx

\* line 99: the minimum length check
BelowMin(i, mn) == i < mn

\* ------------------------------------------------------------------- inputs
\* a text of n tokens
Text(n) == [i \in 1..n |-> 1]

CallArgs(n, given) ==
    [present |-> TRUE, text |-> Array(Text(n)),
     feats  |-> IF "feats"  \in given THEN Array(<<2>>) ELSE NoArray,
     sids   |-> IF "sids"   \in given THEN Array(<<3>>) ELSE NoArray,
     spembs |-> IF "spembs" \in given THEN Array(<<4>>) ELSE NoArray,
     lids   |-> IF "lids"   \in given THEN Array(<<5>>) ELSE NoArray]

NoCall == [present |-> FALSE, text |-> NoArray, feats |-> NoArray,
           sids |-> NoArray, spembs |-> NoArray, lids |-> NoArray]

\* stop probability vectors (tenths): below, at, and partly above the threshold
Low == <<1>>
High == <<9>>
ProbVecs == {Low, <<5>>, <<1, 9>>}
Ratios == {0, 1, 2, 3}

Config(mx, mn, rf, dl, post) ==
    [maxlenratio |-> mx, minlenratio |-> mn, reduction_factor |-> rf,
     threshold |-> 5, dlayers |-> dl, dunits |-> 2, odim |-> 3,
     postdecoder |-> post]

Decoder(layers, nstates, prob, tail) ==
    [layers |-> layers, nstates |-> nstates, prob |-> prob, tail |-> tail]

Setup(cfg, names, dec, a1, a2) ==
    [config |-> cfg, input_names |-> names, decoder |-> dec,
     args |-> <<a1, a2, NoCall>>]

\* one call, every stop schedule against every length configuration
PolicySetups ==
    { Setup(Config(mx, mn, rf, 1, post), {"text"}, Decoder(1, 2, p, Low),
            CallArgs(n, {}), NoCall) :
        mx \in Ratios, mn \in Ratios, rf \in {1, 2}, post \in BOOLEAN,
        p \in [1..Horizon -> ProbVecs], n \in 0..MaxTextLen }

\* one call, the configured dlayers against the decoder model's own layout
ShapeSetups ==
    { Setup(Config(2, 0, 1, dl, FALSE), {"text"},
            Decoder(layers, nstates, [t \in 1..Horizon |-> Low], tail),
            CallArgs(n, {}), NoCall) :
        dl \in 0..2, layers \in 1..2, nstates \in 0..5, tail \in {Low, High},
        n \in 1..2 }

\* one call, the encoder's declared inputs against the arguments supplied
InputSetups ==
    { Setup(Config(2, 0, 1, 1, TRUE), names, Decoder(1, 2, [t \in 1..Horizon |-> Low], Low),
            CallArgs(1, given), NoCall) :
        names \in {{"text", "sids"}, {"text", "feats", "lids"}, {"text", "spembs"}},
        given \in {{}, {"sids"}, {"feats", "lids"}, {"sids", "spembs"}} }

\* the documented scenarios: L = 10, maxlen 20 or 100, minlen 0 or 5
ScenarioSetups ==
    { Setup(Config(mx, mn, 1, 1, FALSE), {"text"}, Decoder(1, 2, p, tail),
            CallArgs(ScenarioLen, {}), NoCall) :
        mx \in {4, 20}, mn \in {0, 1}, p \in [1..Horizon -> {Low, High}],
        tail \in {Low, High} }

\* two calls on one object
ConcurrentSetups ==
    { Setup(Config(2, mn, 1, 1, post), {"text"}, Decoder(1, 2, [t \in 1..Horizon |-> Low], Low),
            CallArgs(n1, {}), CallArgs(n2, {})) :
        mn \in {0, 2}, post \in BOOLEAN, n1 \in 1..2, n2 \in 1..2 }

Setups == PolicySetups \cup ShapeSetups \cup InputSetups \cup ScenarioSetups
            \cup ConcurrentSetups

NoFeed == get_input_dec(<<>>, <<>>, <<>>, Unset, Unset, Unset, <<>>)
NoRet == [feat_gen |-> <<>>, prob |-> <<>>, att_w |-> <<>>]

\* three calls made one after the other: the first and the third with the same
\* input, whatever the second
SequentialSetups ==
    { [config |-> Config(2, 0, 1, 1, post), input_names |-> {"text"},
       decoder |-> Decoder(1, 2, p, Low),
       args |-> <<CallArgs(n1, {}), CallArgs(n2, {}), CallArgs(n1, {})>>] :
        post \in BOOLEAN, n1 \in 1..MaxTextLen, n2 \in 0..MaxTextLen,
        p \in {[t \in 1..Horizon |-> Low], [t \in 1..Horizon |-> IF t = 2 THEN High ELSE Low]} }

\* the loop under every length configuration, with stop probabilities that
\* never reach the threshold, always reach it, or reach it at one iteration
\* only
TerminationSetups ==
    { Setup(Config(mx, mn, rf, 1, post), {"text"}, Decoder(1, 2, p, Low),
            CallArgs(n, {}), NoCall) :
        mx \in Ratios, mn \in Ratios, rf \in {1, 2}, post \in BOOLEAN,
        p \in {[t \in 1..Horizon |-> Low], [t \in 1..Horizon |-> High],
               [t \in 1..Horizon |-> IF t = 2 THEN High ELSE Low]},
        n \in 0..MaxTextLen }

InitFrom(S) ==
    \E s \in S :
        /\ config = s.config
        /\ input_names = s.input_names
        /\ decoder = s.decoder
        /\ args = s.args
        /\ pre_compute_enc_h = Unset
        /\ enc_h = Unset
        /\ mask = <<>>
        /\ pc = [c \in Calls |-> IF s.args[c].present THEN "start" ELSE "off"]
        /\ h = [c \in Calls |-> Unset]
        /\ idx = [c \in Calls |-> 0]
        /\ outs = [c \in Calls |-> <<>>]
        /\ probs = [c \in Calls |-> <<>>]
        /\ att_ws = [c \in Calls |-> <<>>]
        /\ maxlen = [c \in Calls |-> 0]
        /\ minlen = [c \in Calls |-> 0]
        /\ c_list = [c \in Calls |-> <<>>]
        /\ z_list = [c \in Calls |-> <<>>]
        /\ a_prev = [c \in Calls |-> <<>>]
        /\ prev_out = [c \in Calls |-> Unset]
        /\ input_dec = [c \in Calls |-> NoFeed]
        /\ ret = [c \in Calls |-> NoRet]
        /\ err = [c \in Calls |-> ""]
        /\ nsteps = [c \in Calls |-> 0]
        /\ invoked = [c \in Calls |-> <<>>]

Init == InitFrom(Setups)
InitSeq == InitFrom(SequentialSetups)
InitFair == InitFrom(TerminationSetups)

\* ------------------------------------------------------------------ actions
Sessions == {"encoder", "predecoder", "decoder", "postdecoder"}

locals == <<h, idx, outs, probs, att_ws, maxlen, minlen, c_list, z_list,
            a_prev, prev_out, input_dec, ret, nsteps>>

\* lines 83-86: idx += reduction_factor, the feed is built from the call's state
\* and the object's fields, and decoder.run is entered (or refuses the feed)
InvokeDecoder(c, i, cl, zl, a, po, pceh, ench, msk) ==
    LET feed == get_input_dec(cl, zl, a, po, pceh, ench, msk)
    IN  /\ nsteps[c] < MaxIter
        /\ idx' = [idx EXCEPT ![c] = i + config.reduction_factor]
        /\ c_list' = [c_list EXCEPT ![c] = cl]
        /\ z_list' = [z_list EXCEPT ![c] = zl]
        /\ a_prev' = [a_prev EXCEPT ![c] = a]
        /\ prev_out' = [prev_out EXCEPT ![c] = po]
        /\ input_dec' = [input_dec EXCEPT ![c] = feed]
        /\ IF FeedAccepted(decoder, feed)
           THEN /\ pc' = [pc EXCEPT ![c] = "decoder"]
                /\ nsteps' = [nsteps EXCEPT ![c] = @ + 1]
                /\ invoked' = [invoked EXCEPT ![c] = Append(@, "decoder")]
                /\ err' = err
           ELSE /\ pc' = [pc EXCEPT ![c] = "raised"]
                /\ nsteps' = nsteps
                /\ invoked' = invoked
                /\ err' = [err EXCEPT ![c] = "InvalidArgument"]

\* line 70-71: the encoder feed is built and encoder.run is entered
Begin(c) ==
    /\ pc[c] = "start"
    /\ IF get_input_enc(input_names, args[c]).ok
       THEN /\ pc' = [pc EXCEPT ![c] = "encoder"]
            /\ invoked' = [invoked EXCEPT ![c] = Append(@, "encoder")]
            /\ err' = err
       ELSE /\ pc' = [pc EXCEPT ![c] = "raised"]
            /\ invoked' = invoked
            /\ err' = [err EXCEPT ![c] = "AssertionError"]
    /\ UNCHANGED <<objvars, selfvars, locals>>

\* lines 71-79, 162-172: h, the accumulators, the length limits, the zero state;
\* predecoder.run is entered
EncoderReturn(c) ==
    /\ pc[c] = "encoder"
    /\ LET x == EncoderRun(get_input_enc(input_names, args[c]).dic)
           st == init_state(config, x)
           n == Len(args[c].text.val)
       IN  /\ h' = [h EXCEPT ![c] = x]
           /\ idx' = [idx EXCEPT ![c] = 0]
           /\ outs' = [outs EXCEPT ![c] = <<>>]
           /\ probs' = [probs EXCEPT ![c] = <<>>]
           /\ att_ws' = [att_ws EXCEPT ![c] = <<>>]
           /\ maxlen' = [maxlen EXCEPT ![c] = IntOfProduct(n, config.maxlenratio)]
           /\ minlen' = [minlen EXCEPT ![c] = IntOfProduct(n, config.minlenratio)]
           /\ c_list' = [c_list EXCEPT ![c] = st.c_list]
           /\ z_list' = [z_list EXCEPT ![c] = st.z_list]
           /\ a_prev' = [a_prev EXCEPT ![c] = st.a]
           /\ prev_out' = [prev_out EXCEPT ![c] = st.prev_out]
    /\ pc' = [pc EXCEPT ![c] = "predecoder"]
    /\ invoked' = [invoked EXCEPT ![c] = Append(@, "predecoder")]
    /\ UNCHANGED <<objvars, selfvars, input_dec, ret, err, nsteps>>

\* lines 172-179, 82-86: the object's fields are assigned, init_state returns,
\* the first iteration enters decoder.run
PredecoderReturn(c) ==
    /\ pc[c] = "predecoder"
    /\ LET st == init_state(config, h[c])
       IN  /\ pre_compute_enc_h' = st.pre_compute_enc_h
           /\ enc_h' = st.enc_h
           /\ mask' = st.mask
           /\ InvokeDecoder(c, idx[c], c_list[c], z_list[c], a_prev[c], prev_out[c],
                            st.pre_compute_enc_h, st.enc_h, st.mask)
    /\ UNCHANGED <<objvars, h, outs, probs, att_ws, maxlen, minlen, ret>>

\* lines 85-109: the outputs are unpacked and appended, the stopping rule is
\* evaluated, and the call enters decoder.run again, enters postdecoder.run, or
\* returns
DecoderReturn(c) ==
    /\ pc[c] = "decoder"
    /\ LET o == Unpack(DecoderOutputs(decoder, config, input_dec[c]))
           sp == split(o.cz_states)
           outs1 == Append(outs[c], o.out)
           probs1 == Append(probs[c], o.prob)
           att_ws1 == Append(att_ws[c], o.a_prev)
       IN  IF CandidateStop(config, o.prob, idx[c], maxlen[c])
              /\ ~BelowMin(idx[c], minlen[c])
           THEN /\ c_list' = [c_list EXCEPT ![c] = sp.c_list]
                /\ z_list' = [z_list EXCEPT ![c] = sp.z_list]
                /\ a_prev' = [a_prev EXCEPT ![c] = o.a_prev]
                /\ prev_out' = [prev_out EXCEPT ![c] = o.prev_out]
                /\ outs' = [outs EXCEPT ![c] = Concatenate(outs1)]
                /\ IF HasPostdecoder(config)
                   THEN /\ probs' = [probs EXCEPT ![c] = probs1]
                        /\ att_ws' = [att_ws EXCEPT ![c] = att_ws1]
                        /\ pc' = [pc EXCEPT ![c] = "postdecoder"]
                        /\ invoked' = [invoked EXCEPT ![c] = Append(@, "postdecoder")]
                        /\ ret' = ret
                   ELSE /\ probs' = [probs EXCEPT ![c] = Concatenate(probs1)]
                        /\ att_ws' = [att_ws EXCEPT ![c] = Concatenate(att_ws1)]
                        /\ pc' = [pc EXCEPT ![c] = "done"]
                        /\ invoked' = invoked
                        /\ ret' = [ret EXCEPT ![c] =
                                     [feat_gen |-> Concatenate(outs1),
                                      prob |-> Concatenate(probs1),
                                      att_w |-> Concatenate(att_ws1)]]
                /\ UNCHANGED <<idx, input_dec, err, nsteps>>
           ELSE /\ outs' = [outs EXCEPT ![c] = outs1]
                /\ probs' = [probs EXCEPT ![c] = probs1]
                /\ att_ws' = [att_ws EXCEPT ![c] = att_ws1]
                /\ InvokeDecoder(c, idx[c], sp.c_list, sp.z_list, o.a_prev, o.prev_out,
                                 pre_compute_enc_h, enc_h, mask)
                /\ ret' = ret
    /\ UNCHANGED <<objvars, selfvars, h, maxlen, minlen>>

\* lines 103-111: the refined frames replace outs, the other accumulators are
\* concatenated, the dict is returned
PostdecoderReturn(c) ==
    /\ pc[c] = "postdecoder"
    /\ outs' = [outs EXCEPT ![c] = PostdecoderRun(outs[c])]
    /\ probs' = [probs EXCEPT ![c] = Concatenate(probs[c])]
    /\ att_ws' = [att_ws EXCEPT ![c] = Concatenate(att_ws[c])]
    /\ ret' = [ret EXCEPT ![c] = [feat_gen |-> PostdecoderRun(outs[c]),
                                  prob |-> Concatenate(probs[c]),
                                  att_w |-> Concatenate(att_ws[c])]]
    /\ pc' = [pc EXCEPT ![c] = "done"]
    /\ UNCHANGED <<objvars, selfvars, h, idx, maxlen, minlen, c_list, z_list,
                   a_prev, prev_out, input_dec, err, nsteps, invoked>>

\* variant: a failed run is caught and the session is entered again
SessionRaises_Retry(c) ==
    /\ pc[c] \in Sessions
    /\ err' = [err EXCEPT ![c] = "SessionError"]
    /\ invoked' = [invoked EXCEPT ![c] = Append(@, pc[c])]
    /\ UNCHANGED <<objvars, selfvars, locals, pc>>

\* a session's run raises: nothing in __call__ catches it
SessionRaises(c) ==
    /\ pc[c] \in Sessions
    /\ pc' = [pc EXCEPT ![c] = "raised"]
    /\ err' = [err EXCEPT ![c] = "SessionError"]
    /\ UNCHANGED <<objvars, selfvars, locals, invoked>>

Next ==
    \E c \in Calls :
        \/ Begin(c)
        \/ EncoderReturn(c)
        \/ PredecoderReturn(c)
        \/ DecoderReturn(c)
        \/ PostdecoderReturn(c)
        \/ SessionRaises(c)

Spec == Init /\ [][Next]_vars

\* a call that is under way goes on: it is scheduled, and the session it is in
\* returns or raises
Proceeds(c) ==
    \/ Begin(c)
    \/ EncoderReturn(c)
    \/ PredecoderReturn(c)
    \/ DecoderReturn(c)
    \/ PostdecoderReturn(c)
    \/ SessionRaises(c)

FairSpec == InitFair /\ [][Next]_vars /\ \A c \in Calls : WF_vars(Proceeds(c))

\* calls made one after the other: a call starts when the calls before it ended
InTurn(c) == \A d \in Calls : d < c => pc[d] \in {"done", "raised", "off"}

NextSeq ==
    \E c \in Calls :
        \/ InTurn(c) /\ Begin(c)
        \/ InTurn(c) /\ EncoderReturn(c)
        \/ InTurn(c) /\ PredecoderReturn(c)
        \/ InTurn(c) /\ DecoderReturn(c)
        \/ InTurn(c) /\ PostdecoderReturn(c)
        \/ InTurn(c) /\ SessionRaises(c)

SpecSeq == InitSeq /\ [][NextSeq]_vars

\* ------------------------------------------------------------------- claims
Stopped == {"postdecoder", "done"}
Running(c) == pc[c] = "decoder"

\* the step of DecoderReturn(c): the outputs of a decoder run are recorded
StepEvaluated(c) == pc[c] = "decoder" /\ Len(outs'[c]) # Len(outs[c])

\* the stop probability vector of the decoder model has an element >= threshold
\* at iteration k
Triggered(k) == CountAtLeast(ProbAt(decoder, k), config.threshold) > 0

\* the stopping rule is met at iteration k of call c
StopHolds(c, k) ==
    /\ k * config.reduction_factor >= minlen[c]
    /\ Triggered(k) \/ k * config.reduction_factor >= maxlen[c]

\* C1: at an iteration whose index is below minlen the loop goes on to the next
\* iteration (the index advances, the next decoder feed is built) and returns
\* nothing, whatever the stop probabilities and whether or not index >= maxlen.
C1_MinlenFloor ==
    [][\A c \in Calls :
        (StepEvaluated(c) /\ idx[c] < minlen[c]) =>
            /\ idx'[c] = idx[c] + config.reduction_factor
            /\ pc'[c] \notin Stopped
            /\ (pc'[c] = "raised" => err'[c] = "InvalidArgument")
            /\ ret'[c] = NoRet]_vars

\* a trigger with every element >= threshold, at an index >= maxlen and < minlen,
\* was recorded and the next decoder run is in flight
C1_Witness ==
    \E c \in Calls :
        /\ Running(c)
        /\ nsteps[c] >= 2
        /\ idx[c] - config.reduction_factor < minlen[c]
        /\ idx[c] - config.reduction_factor >= maxlen[c]
        /\ \A i \in DOMAIN probs[c][nsteps[c] - 1] :
              probs[c][nsteps[c] - 1][i] >= config.threshold

\* C2: at an iteration whose index is >= maxlen and >= minlen the loop ends at
\* that iteration, with no further decoder invocation, whatever the stop
\* probabilities.
C2_MaxlenCeiling ==
    [][\A c \in Calls :
        (StepEvaluated(c) /\ idx[c] >= maxlen[c] /\ idx[c] >= minlen[c]) =>
            /\ pc'[c] \in Stopped
            /\ nsteps'[c] = nsteps[c]
            /\ idx'[c] = idx[c]]_vars

\* the loop ended at the ceiling with every stop probability below threshold
C2_Witness ==
    \E c \in Calls :
        /\ pc[c] = "done"
        /\ nsteps[c] >= 2
        /\ idx[c] >= maxlen[c]
        /\ \A k \in 1..nsteps[c] : ~Triggered(k)

\* the scenario of C3: L = 10, minlen = 5, maxlen = 100, reduction_factor = 1,
\* threshold 0.5, stop probability 0.9 on iteration 3
Scenario(c, mn, mx) ==
    /\ pc[c] \in Stopped \cup {"decoder"}
    /\ Len(args[c].text.val) = 10
    /\ minlen[c] = mn
    /\ maxlen[c] = mx
    /\ config.reduction_factor = 1
    /\ config.threshold = 5
    /\ ProbAt(decoder, 3) = High
    /\ \A t \in 1..2 : ProbAt(decoder, t) = Low

\* the trigger of iteration 3 is not repeated / is repeated ever after
OnlyAtThree == \A t \in 4..(MaxIter + 1) : ProbAt(decoder, t) = Low
FromThreeOn == \A t \in 4..(MaxIter + 1) : ProbAt(decoder, t) = High

\* C3 as stated: with the stop probability at 0.9 on iteration 3 only, the call
\* ends after exactly 5 iterations.
C3_Original ==
    \A c \in Calls :
        (Scenario(c, 5, 100) /\ OnlyAtThree /\ pc[c] = "done") => nsteps[c] = 5

\* C3 as amended: a trigger below minlen is not remembered.  The loop ends at the
\* first iteration at which the index is >= minlen and that iteration's own stop
\* probability reaches the threshold or the index is >= maxlen: 100 iterations
\* when the 0.9 comes on iteration 3 only, 5 when it stays from iteration 3 on.
C3_TriggerNotLatched ==
    \A c \in Calls :
        /\ (Scenario(c, 5, 100) /\ OnlyAtThree /\ pc[c] = "done") => nsteps[c] = 100
        /\ (Scenario(c, 5, 100) /\ FromThreeOn /\ pc[c] = "done") => nsteps[c] = 5
        /\ pc[c] \in Stopped =>
              /\ StopHolds(c, nsteps[c])
              /\ \A k \in 1..(nsteps[c] - 1) : ~StopHolds(c, k)
        /\ Running(c) => \A k \in 1..(nsteps[c] - 1) : ~StopHolds(c, k)

\* the scenario ran to its end with the single trigger on iteration 3
C3_Witness ==
    \E c \in Calls : Scenario(c, 5, 100) /\ OnlyAtThree /\ pc[c] = "done"

\* maxlen < minlen (both set by the call)
Degenerate(c) == pc[c] \in Stopped \cup {"decoder"} /\ maxlen[c] < minlen[c]

\* C4 as stated: with maxlen < minlen and a stop probability that never reaches
\* the threshold, the loop never reaches STOP.
C4_Original ==
    \A c \in Calls :
        (Degenerate(c) /\ \A k \in 1..nsteps[c] : ~Triggered(k)) =>
            pc[c] \notin Stopped

\* C4 as amended: with maxlen < minlen the loop is bounded.  Whatever the stop
\* probabilities, it ends at the first iteration whose index is >= minlen, so the
\* index never reaches minlen + reduction_factor.
C4_DegenerateBounded ==
    \A c \in Calls :
        Degenerate(c) =>
            /\ idx[c] < minlen[c] + config.reduction_factor
            /\ nsteps[c] * config.reduction_factor = idx[c]
            /\ pc[c] \in Stopped => idx[c] >= minlen[c]

\* a degenerate call ended although no stop probability reached the threshold
C4_Witness ==
    \E c \in Calls :
        /\ Degenerate(c)
        /\ pc[c] = "done"
        /\ nsteps[c] >= 2
        /\ \A k \in 1..nsteps[c] : ~Triggered(k)

\* C5: every decoder feed of a call carries the encoder projection, the encoder
\* output and the mask bias derived from that call's own input.
C5_Original ==
    \A c \in Calls :
        Running(c) =>
            /\ input_dec[c].pceh = PredecoderRun(AddBatch(h[c]))
            /\ input_dec[c].enc_h = AddBatch(h[c])
            /\ input_dec[c].mask = MaskBias(h[c])

RECURSIVE SumLen(_)
SumLen(list) == IF list = <<>> THEN 0 ELSE Len(Head(list)) + SumLen(Tail(list))

\* every stop probability vector emitted so far has one entry
OneEntryEach(c) == \A k \in 1..nsteps[c] : Len(ProbAt(decoder, k)) = 1

\* C6: while the loop runs the three accumulators have the same length, the
\* number of decoder runs that have returned; a call that ends after n iterations
\* returns att_w with n rows, feat_gen with n x reduction_factor frames and,
\* when every step emits one stop probability, prob with n entries.
C6_ResultLengths ==
    \A c \in Calls :
        /\ Running(c) =>
              /\ Len(outs[c]) = nsteps[c] - 1
              /\ Len(probs[c]) = nsteps[c] - 1
              /\ Len(att_ws[c]) = nsteps[c] - 1
        /\ pc[c] = "postdecoder" =>
              /\ Len(outs[c]) = nsteps[c] * config.reduction_factor
              /\ Len(probs[c]) = nsteps[c]
              /\ Len(att_ws[c]) = nsteps[c]
        /\ pc[c] = "done" =>
              /\ Len(ret[c].feat_gen) = nsteps[c] * config.reduction_factor
              /\ Len(ret[c].att_w) = nsteps[c]
              /\ OneEntryEach(c) => Len(ret[c].prob) = nsteps[c]

\* a call returned after two iterations of two frames each
C6_Witness ==
    \E c \in Calls :
        /\ pc[c] = "done"
        /\ nsteps[c] = 2
        /\ config.reduction_factor = 2
        /\ OneEntryEach(c)
        /\ Len(ret[c].feat_gen) = 4
        /\ Len(ret[c].prob) = 2

\* C7: with minlen = 0 the loop ends at exactly the first iteration whose stop
\* probability has an element >= threshold (inclusive) or whose index is >=
\* maxlen, and the result holds that iteration's frames, probability and
\* attention; in the scenario (0.9 first on iteration 3) that is 3 iterations.
C7_ProbabilityTrigger ==
    \A c \in Calls :
        (pc[c] \in Stopped \cup {"decoder"} /\ minlen[c] = 0) =>
            /\ \A k \in 1..(nsteps[c] - 1) :
                  ~(Triggered(k) \/ k * config.reduction_factor >= maxlen[c])
            /\ pc[c] \in Stopped =>
                  Triggered(nsteps[c]) \/ idx[c] >= maxlen[c]
            /\ pc[c] = "done" =>
                  /\ ret[c].feat_gen # <<>>
                  /\ ret[c].feat_gen[Len(ret[c].feat_gen)].tick = nsteps[c]
                  /\ ret[c].att_w[Len(ret[c].att_w)].tick = nsteps[c]
                  /\ SubSeq(ret[c].prob,
                            Len(ret[c].prob) - Len(ProbAt(decoder, nsteps[c])) + 1,
                            Len(ret[c].prob)) = ProbAt(decoder, nsteps[c])
            /\ (Scenario(c, 0, 100) /\ pc[c] = "done") =>
                  nsteps[c] = 3 /\ Len(ret[c].feat_gen) = 3

\* a call with minlen = 0 ended below maxlen on a stop probability equal to the
\* threshold
C7_Witness ==
    \E c \in Calls :
        /\ pc[c] = "done"
        /\ minlen[c] = 0
        /\ nsteps[c] >= 2
        /\ idx[c] < maxlen[c]
        /\ ProbAt(decoder, nsteps[c]) = <<config.threshold>>

\* C8: when no stop probability reaches the threshold and minlen <= maxlen, the
\* loop ends exactly at the first iteration whose index is >= maxlen; with
\* maxlen = 20 and reduction_factor = 1 that is after 20 decoder invocations.
C8_MaxlenScenario ==
    \A c \in Calls :
        (/\ pc[c] \in Stopped \cup {"decoder"}
         /\ minlen[c] <= maxlen[c]
         /\ \A k \in 1..nsteps[c] : ~Triggered(k)) =>
            /\ nsteps[c] = 1 \/ idx[c] - config.reduction_factor < maxlen[c]
            /\ pc[c] \in Stopped => idx[c] >= maxlen[c]
            /\ (pc[c] \in Stopped /\ maxlen[c] = 20 /\ config.reduction_factor = 1) =>
                  nsteps[c] = 20

\* a call with maxlen = 20 ended without any trigger
C8_Witness ==
    \E c \in Calls :
        /\ pc[c] = "done"
        /\ maxlen[c] = 20
        /\ minlen[c] <= maxlen[c]
        /\ config.reduction_factor = 1
        /\ \A k \in 1..nsteps[c] : ~Triggered(k)

RECURSIVE SumNum(_)
\* the sum of the numerators of a sequence of fractions
SumNum(w) == IF w = <<>> THEN 0 ELSE Head(w)[1] + SumNum(Tail(w))

\* init_state has returned its lists for an encoder output of length >= 1
Initialized(c) == pc[c] = "predecoder" /\ h[c].L >= 1

\* what C9 says of the state besides the number of layers
InitShape(c) ==
    /\ \A i \in DOMAIN c_list[c] :
          c_list[c][i].zero /\ c_list[c][i].shape = <<1, config.dunits>>
    /\ \A i \in DOMAIN z_list[c] :
          z_list[c][i].zero /\ z_list[c][i].shape = <<1, config.dunits>>
    /\ prev_out[c].zero /\ prev_out[c].shape = <<1, config.odim>>
    /\ Len(a_prev[c]) = 1
    /\ Len(a_prev[c][1].w) = h[c].L
    /\ \A i \in DOMAIN a_prev[c][1].w : a_prev[c][1].w[i] = <<1, h[c].L>>
    /\ SumNum(a_prev[c][1].w) = h[c].L

\* C9 as stated: the cell and hidden lists have exactly dlayers entries, also
\* for dlayers = 0.
C9_Original ==
    \A c \in Calls :
        Initialized(c) =>
            /\ Len(c_list[c]) = config.dlayers
            /\ Len(z_list[c]) = config.dlayers
            /\ InitShape(c)

\* C9 as amended: the cell and hidden lists have max(1, dlayers) entries each
\* (one entry for dlayers = 0), all zero and of width dunits; the previous frame
\* is zero of width odim; each of the L positions has attention weight 1/L.
C9_InitialState ==
    \A c \in Calls :
        Initialized(c) =>
            /\ Len(c_list[c]) = Max(1, config.dlayers)
            /\ Len(z_list[c]) = Max(1, config.dlayers)
            /\ InitShape(c)

\* init_state returned one-entry lists for dlayers = 0 and L = 2
C9_Witness ==
    \E c \in Calls :
        /\ Initialized(c)
        /\ config.dlayers = 0
        /\ h[c].L = 2
        /\ Len(c_list[c]) = 1

\* C10: a call whose decoder run returned a recurrent-state sequence of a length
\* other than 2 x dlayers has failed at that iteration: it neither splits the
\* sequence and enters the next decoder run, nor returns a result.  (Stated for
\* dlayers >= 1, where init_state builds dlayers entries.)
C10_Original ==
    \A c \in Calls :
        (/\ config.dlayers >= 1
         /\ Len(outs[c]) >= 1
         /\ decoder.nstates # 2 * config.dlayers) =>
            pc[c] \notin Stopped \cup {"decoder"}

\* ---------------------------------------------------------------------------
\* C11: a call whose encoder output has length 0 fails in init_state: neither
\* the pre-decoder nor the decoder is entered and nothing is returned.
C11_Original ==
    \A c \in Calls :
        (h[c].stage = "enc" /\ h[c].L = 0) =>
            /\ pc[c] \notin {"predecoder", "decoder"} \cup Stopped
            /\ ret[c] = NoRet

\* ---------------------------------------------------------------------------
\* C12: the sessions a call enters are, in order, the encoder once, the
\* pre-decoder once, the decoder once per iteration, and then the post-decoder
\* once on the whole concatenated buffer if one is loaded and never otherwise;
\* a call that returned after n iterations made exactly these invocations.
Expected(i, n) ==
    IF i = 1 THEN "encoder"
    ELSE IF i = 2 THEN "predecoder"
    ELSE IF i <= 2 + n THEN "decoder"
    ELSE "postdecoder"

C12_InvocationOrder ==
    \A c \in Calls :
        LET log == invoked[c]
            n == nsteps[c]
        IN  /\ \A i \in 1..Len(log) : log[i] = Expected(i, n)
            /\ Len(log) <= 3 + n
            /\ Len(log) = 3 + n =>
                   /\ config.postdecoder
                   /\ n >= 1
                   /\ pc[c] \in {"postdecoder", "done", "raised"}
            /\ pc[c] = "postdecoder" =>
                   /\ Len(log) = 3 + n
                   /\ Len(outs[c]) = n * config.reduction_factor
                   /\ \A j \in 1..Len(outs[c]) : ~outs[c][j].post
            /\ pc[c] = "done" =>
                   /\ n >= 1
                   /\ Len(ret[c].att_w) = n
                   /\ Len(log) = 2 + n + (IF config.postdecoder THEN 1 ELSE 0)
                   /\ \A j \in 1..Len(ret[c].feat_gen) :
                          ret[c].feat_gen[j].post = config.postdecoder

C12_Witness ==
    \E c \in Calls :
        /\ pc[c] = "done"
        /\ config.postdecoder
        /\ nsteps[c] = 3
        /\ invoked[c] = <<"encoder", "predecoder", "decoder", "decoder", "decoder",
                          "postdecoder">>

\* ---------------------------------------------------------------------------
\* C13: when calls are made one after the other on one object, every decoder
\* feed of a call carries the values that call's own init_state assigned,
\* whatever an earlier call left in the object's fields, and two calls with the
\* same input return the same result after the same number of iterations,
\* whatever call was made between them.
OwnFields(c) ==
    /\ input_dec[c].pceh = PredecoderRun(AddBatch(h[c]))
    /\ input_dec[c].enc_h = AddBatch(h[c])
    /\ input_dec[c].mask = MaskBias(h[c])

C13_SequentialDeterminism ==
    /\ \A c \in Calls : pc[c] = "decoder" => OwnFields(c)
    /\ \A c, d \in Calls :
           (pc[c] = "done" /\ pc[d] = "done" /\ args[c] = args[d]) =>
               /\ ret[c] = ret[d]
               /\ nsteps[c] = nsteps[d]

C13_Witness ==
    /\ pc[1] = "done" /\ pc[2] = "done" /\ pc[3] = "done"
    /\ args[1] = args[3]
    /\ Len(args[2].text.val) > Len(args[1].text.val)
    /\ pre_compute_enc_h # Unset
    /\ nsteps[3] = 2
    /\ ret[1] = ret[3]
    /\ ret[2] # ret[3]

\* ---------------------------------------------------------------------------
\* C14: a failure of the encoder, the pre-decoder, a decoder step or the
\* post-decoder ends the call at once: the call is left raised with nothing
\* returned, and from then on it enters no session again (no retry, no further
\* step) and never returns what it had accumulated.
C14_FailureAborts ==
    [][\A c \in Calls :
          /\ err'[c] # "" => (pc'[c] = "raised" /\ ret'[c] = NoRet)
          /\ (pc[c] \in Sessions /\ pc'[c] = "raised") =>
                 (invoked'[c] = invoked[c] /\ nsteps'[c] = nsteps[c])
          /\ pc[c] = "raised" =>
                 /\ pc'[c] = "raised"
                 /\ err'[c] = err[c]
                 /\ invoked'[c] = invoked[c]
                 /\ nsteps'[c] = nsteps[c]
                 /\ ret'[c] = NoRet]_vars

C14_Witness ==
    \E c, d \in Calls :
        /\ pc[c] = "raised" /\ err[c] = "SessionError"
        /\ nsteps[c] = 2 /\ Len(outs[c]) = 1
        /\ ret[c] = NoRet
        /\ pc[d] = "done"

\* ---------------------------------------------------------------------------
\* C15: with a decoder that returns its states in the declared layout (one
\* cell and one hidden state per layer it takes), the cell list and the hidden
\* list a step hands to the next iteration have as many entries, of the same
\* shapes, as the lists the step was fed; the count is that of init_state all
\* along, which is dlayers for dlayers >= 1.
HonoursLayout == decoder.nstates = 2 * decoder.layers

SameShapes(new, old) ==
    /\ Len(new) = Len(old)
    /\ \A i \in 1..Len(old) : new[i].shape = old[i].shape

C15_ShapePreserved ==
    [][\A c \in Calls :
          (HonoursLayout /\ StepEvaluated(c)) =>
              /\ SameShapes(c_list'[c], input_dec[c].c_prev)
              /\ SameShapes(z_list'[c], input_dec[c].z_prev)
              /\ Len(c_list'[c]) = Len(InitList(config, h[c]))
              /\ Len(z_list'[c]) = Len(InitList(config, h[c]))
              /\ config.dlayers >= 1 => Len(c_list'[c]) = config.dlayers
              /\ pc'[c] \in {"decoder", "postdecoder", "done"}
              /\ pc'[c] = "decoder" =>
                     /\ input_dec'[c].c_prev = c_list'[c]
                     /\ input_dec'[c].z_prev = z_list'[c]]_vars

C15_Witness ==
    \E c \in Calls :
        /\ HonoursLayout /\ config.dlayers = 2
        /\ pc[c] = "decoder" /\ nsteps[c] = 2
        /\ Len(input_dec[c].c_prev) = 2 /\ Len(input_dec[c].z_prev) = 2
        /\ input_dec[c].c_prev[2].tick = 1

\* ---------------------------------------------------------------------------
\* C16: the feed of the encoder holds 'text' and, of feats, sids, spembs and
\* lids, exactly those the encoder declares, each with the value supplied; a
\* supplied input the encoder does not declare is left out; a call that does
\* not supply a declared input fails before it enters the encoder.
Optional == {"feats", "sids", "spembs", "lids"}

Missing(c) == {k \in input_names \cap Optional : ~args[c][k].given}

C16_EncoderFeed ==
    \A c \in Calls :
        args[c].present =>
            /\ Missing(c) # {} =>
                   /\ pc[c] \in {"start", "raised"}
                   /\ invoked[c] = <<>>
                   /\ h[c] = Unset
                   /\ pc[c] = "raised" => err[c] = "AssertionError"
            /\ Missing(c) = {} => err[c] # "AssertionError"
            /\ h[c].stage = "enc" =>
                   /\ DOMAIN h[c].src = {"text"} \cup (input_names \cap Optional)
                   /\ \A k \in DOMAIN h[c].src : h[c].src[k] = args[c][k].val

C16_Witness ==
    \E c \in Calls :
        /\ pc[c] = "raised" /\ err[c] = "AssertionError"
        /\ "feats" \in input_names /\ ~args[c].feats.given
        /\ "sids" \notin input_names /\ args[c].sids.given
        /\ invoked[c] = <<>>

\* ---------------------------------------------------------------------------
\* C17 as the spec states it: the outputs of a decoder run after the first
\* three (frame, stop probability, attention) are the recurrent state, so the
\* new cell list and the new hidden list together hold all of them.
C17_Original ==
    [][\A c \in Calls :
          (HonoursLayout /\ StepEvaluated(c)) =>
              LET t == DecoderOutputs(decoder, config, input_dec[c])
              IN  Len(c_list'[c]) + Len(z_list'[c]) = Len(t) - 3]_vars

\* C17: the outputs of a decoder run are unpacked as frame, stop probability,
\* attention and previous output frame; the m outputs after these four are
\* the recurrent state, whose first m div 2 entries become the new cell list
\* and whose other entries become the new hidden list, in the order returned;
\* for a decoder that keeps its layout these are the cell and the hidden state
\* of layer i at place i, one per layer.
C17_FourLeading ==
    [][\A c \in Calls :
          StepEvaluated(c) =>
              LET t == DecoderOutputs(decoder, config, input_dec[c])
                  m == Len(t) - 4
              IN  /\ a_prev'[c] = t[3]
                  /\ prev_out'[c] = t[4]
                  /\ Len(c_list'[c]) + Len(z_list'[c]) = m
                  /\ c_list'[c] = SubSeq(t, 5, 4 + m \div 2)
                  /\ z_list'[c] = SubSeq(t, 5 + m \div 2, Len(t))
                  /\ HonoursLayout =>
                         /\ Len(c_list'[c]) = decoder.layers
                         /\ Len(z_list'[c]) = decoder.layers
                         /\ \A i \in 1..decoder.layers :
                                /\ c_list'[c][i].kind = "c" /\ c_list'[c][i].layer = i
                                /\ z_list'[c][i].kind = "z" /\ z_list'[c][i].layer = i]_vars

C17_Witness ==
    \E c \in Calls :
        /\ HonoursLayout /\ decoder.layers = 2
        /\ pc[c] = "decoder" /\ nsteps[c] = 2
        /\ input_dec[c].prev_in.tick = 1
        /\ input_dec[c].c_prev[2].kind = "c" /\ input_dec[c].c_prev[2].layer = 2
        /\ input_dec[c].z_prev[1].kind = "z" /\ input_dec[c].z_prev[1].layer = 1

\* ---------------------------------------------------------------------------
\* C18: the first decoder feed of a call carries the state init_state built;
\* with a decoder that keeps its layout, the feed of step k + 1 carries as
\* c_prev_i, z_prev_i, a_prev and prev_in the cell i, hidden i, attention and
\* previous frame step k returned; and every feed of the call carries the
\* encoder projection, encoder output and mask bias of the feed before it,
\* those of the call's initialization.
C18_Original ==
    [][\A c \in Calls :
          /\ (pc[c] = "predecoder" /\ pc'[c] = "decoder") =>
                 /\ input_dec'[c].c_prev = init_state(config, h[c]).c_list
                 /\ input_dec'[c].z_prev = init_state(config, h[c]).z_list
                 /\ input_dec'[c].a_prev = init_state(config, h[c]).a
                 /\ input_dec'[c].prev_in = init_state(config, h[c]).prev_out
                 /\ input_dec'[c].pceh = init_state(config, h[c]).pre_compute_enc_h
                 /\ input_dec'[c].enc_h = init_state(config, h[c]).enc_h
                 /\ input_dec'[c].mask = init_state(config, h[c]).mask
          /\ (HonoursLayout /\ StepEvaluated(c) /\ pc'[c] = "decoder") =>
                 LET t == DecoderOutputs(decoder, config, input_dec[c])
                     n == decoder.layers
                 IN  /\ Len(input_dec'[c].c_prev) = n
                     /\ Len(input_dec'[c].z_prev) = n
                     /\ \A i \in 1..n :
                            /\ input_dec'[c].c_prev[i] = t[4 + i]
                            /\ input_dec'[c].z_prev[i] = t[4 + n + i]
                     /\ input_dec'[c].a_prev = t[3]
                     /\ input_dec'[c].prev_in = t[4]
                     /\ input_dec'[c].pceh = input_dec[c].pceh
                     /\ input_dec'[c].enc_h = input_dec[c].enc_h
                     /\ input_dec'[c].mask = input_dec[c].mask]_vars

\* ---------------------------------------------------------------------------
\* C19: whatever the stop probabilities, minlen >= 0, maxlen >= 0 and
\* reduction_factor >= 1, a call runs the decoder at most
\* max(1, ceil(max(minlen, maxlen) / reduction_factor)) times, at least once
\* before it leaves the loop (also with maxlen = 0), and it does leave the
\* loop: every call ends, returned or raised.
CeilDiv(a, b) == (a + b - 1) \div b

StepBound(c) ==
    Max(1, CeilDiv(Max(minlen[c], maxlen[c]), config.reduction_factor))

WithinBound ==
    \A c \in Calls :
        /\ nsteps[c] <= StepBound(c)
        /\ pc[c] \in Stopped => nsteps[c] >= 1

Ended(c) == pc[c] \in {"off", "done", "raised"}

C19_Terminates ==
    /\ []WithinBound
    /\ \A c \in Calls : <>Ended(c)

C19_Witness ==
    \E c \in Calls :
        /\ pc[c] = "done"
        /\ config.reduction_factor = 2
        /\ minlen[c] > maxlen[c]
        /\ nsteps[c] = 2
        /\ nsteps[c] = StepBound(c)

====
